---------------------------- MODULE Spec2Model ----------------------------
(***************************************************************************)
(* Model of the unit-conversion screen of calversion                       *)
(* (src/app/index.tsx, component UnitConverter).                           *)
(*                                                                         *)
(* Texts the code inspects character by character (the raw input, the      *)
(* result, the custom factor) are sequences of one-character strings.      *)
(* Texts the code only copies or tests for emptiness (unit names, labels)  *)
(* are plain strings.                                                      *)
(*                                                                         *)
(* JavaScript numbers are modelled as exact decimal fractions              *)
(*      (+/-) n / (10^e * q)                                               *)
(* with n an arbitrary-length digit sequence, plus Infinity and NaN.  The  *)
(* rounding error of IEEE doubles (2^-53 relative) is not modelled: every  *)
(* number the screen shows goes through toFixed(8) or an integer           *)
(* toString, so the displayed text differs from the exact one only within  *)
(* 1e-16 of a rounding tie.  Magnitudes of 1e21 and more (exponent         *)
(* notation) are outside the input sets below.                             *)
(***************************************************************************)
EXTENDS Integers, Sequences, FiniteSets, TLC

(***************************************************************************)
(* Characters and texts                                                    *)
(***************************************************************************)
DigitChars == <<"0", "1", "2", "3", "4", "5", "6", "7", "8", "9">>

IsDigit(c) == \E d \in 1..10 : DigitChars[d] = c

DigitVal(c) == (CHOOSE d \in 1..10 : DigitChars[d] = c) - 1

\* StrWhiteSpaceChar, as far as the input sets use it
IsSpace(c) == c = " "

\* U+221E, what Number.prototype.toLocaleString('en-US') renders Infinity as
InfinitySign == "(inf)"

RECURSIVE TrimStart(_)
TrimStart(s) ==
    IF s = << >> THEN << >>
    ELSE IF IsSpace(Head(s)) THEN TrimStart(Tail(s)) ELSE s

RECURSIVE TrimEnd(_)
TrimEnd(s) ==
    IF s = << >> THEN << >>
    ELSE IF IsSpace(s[Len(s)]) THEN TrimEnd(SubSeq(s, 1, Len(s) - 1)) ELSE s

\* String.prototype.trim
Trim(s) == TrimEnd(TrimStart(s))

StartsWith(s, p) == Len(s) >= Len(p) /\ SubSeq(s, 1, Len(p)) = p

\* the longest prefix of s made of decimal digits, as a length
RECURSIVE DigitRunLen(_)
DigitRunLen(s) ==
    IF s = << >> \/ ~IsDigit(Head(s)) THEN 0 ELSE 1 + DigitRunLen(Tail(s))

Drop(s, k) == SubSeq(s, k + 1, Len(s))

Take(s, k) == SubSeq(s, 1, IF k < Len(s) THEN k ELSE Len(s))

(***************************************************************************)
(* Natural numbers of any length: digit sequences, most significant digit  *)
(* first, no leading zero; zero is the empty sequence.                     *)
(***************************************************************************)
Zeros(k) == [i \in 1..k |-> 0]

RECURSIVE BigNorm(_)
BigNorm(d) ==
    IF d = << >> THEN << >>
    ELSE IF Head(d) = 0 THEN BigNorm(Tail(d)) ELSE d

RECURSIVE IntToBig(_)
IntToBig(c) == IF c = 0 THEN << >> ELSE Append(IntToBig(c \div 10), c % 10)

RECURSIVE BigToInt(_)
BigToInt(d) ==
    IF d = << >> THEN 0 ELSE 10 * BigToInt(SubSeq(d, 1, Len(d) - 1)) + d[Len(d)]

BigShift(d, k) == IF d = << >> THEN << >> ELSE d \o Zeros(k)

PadLeft(d, k) == IF Len(d) >= k THEN d ELSE Zeros(k - Len(d)) \o d

RECURSIVE MulStep(_, _, _, _, _)
MulStep(d, m, i, carry, acc) ==
    IF i = 0 THEN IntToBig(carry) \o acc
    ELSE LET t == d[i] * m + carry
         IN  MulStep(d, m, i - 1, t \div 10, <<t % 10>> \o acc)

\* d * m, for 0 <= m <= 2 * 10^8
BigMulSmall(d, m) == BigNorm(MulStep(d, m, Len(d), 0, << >>))

RECURSIVE DivStep(_, _, _, _, _)
DivStep(d, m, i, rem, acc) ==
    IF i > Len(d) THEN [quot |-> BigNorm(acc), rem |-> rem]
    ELSE LET t == rem * 10 + d[i]
         IN  DivStep(d, m, i + 1, t % m, Append(acc, t \div m))

\* quotient and remainder of d by m, for 1 <= m <= 2 * 10^8
BigDivSmall(d, m) == DivStep(d, m, 1, 0, << >>)

RECURSIVE CmpStep(_, _, _)
CmpStep(a, b, i) ==
    IF i > Len(a) THEN 0
    ELSE IF a[i] < b[i] THEN -1
    ELSE IF a[i] > b[i] THEN 1
    ELSE CmpStep(a, b, i + 1)

\* -1, 0, 1 as a < b, a = b, a > b (both normalised)
BigCmp(a, b) ==
    IF Len(a) < Len(b) THEN -1
    ELSE IF Len(a) > Len(b) THEN 1
    ELSE CmpStep(a, b, 1)

RECURSIVE AddStep(_, _, _, _, _)
AddStep(a, b, i, carry, acc) ==
    IF i = 0 THEN IntToBig(carry) \o acc
    ELSE LET t == a[i] + b[i] + carry
         IN  AddStep(a, b, i - 1, t \div 10, <<t % 10>> \o acc)

BigAdd(a, b) ==
    LET k == IF Len(a) > Len(b) THEN Len(a) ELSE Len(b)
    IN  BigNorm(AddStep(PadLeft(a, k), PadLeft(b, k), k, 0, << >>))

RECURSIVE SubStep(_, _, _, _, _)
SubStep(a, b, i, borrow, acc) ==
    IF i = 0 THEN acc
    ELSE LET t == a[i] - b[i] - borrow
         IN  IF t < 0 THEN SubStep(a, b, i - 1, 1, <<t + 10>> \o acc)
             ELSE SubStep(a, b, i - 1, 0, <<t>> \o acc)

\* a - b, for a >= b
BigSub(a, b) ==
    LET k == Len(a)
    IN  BigNorm(SubStep(a, PadLeft(b, k), k, 0, << >>))

(***************************************************************************)
(* JavaScript numbers.  A finite number is (+/-) n / (10^e * q): n a digit *)
(* sequence, e >= 0, 1 <= q <= 2 * 10^8.  neg with n = 0 is -0.            *)
(***************************************************************************)
Num(neg, n, e, q) == [kind |-> "num", neg |-> neg, n |-> n, e |-> e, q |-> q]

Inf(neg) == [kind |-> "inf", neg |-> neg, n |-> << >>, e |-> 0, q |-> 1]

NaN == [kind |-> "nan", neg |-> FALSE, n |-> << >>, e |-> 0, q |-> 1]

\* isNaN, isFinite
IsNaN(v) == v.kind = "nan"

IsFinite(v) == v.kind = "num"

IsZero(v) == v.kind = "num" /\ v.n = << >>

Max(a, b) == IF a > b THEN a ELSE b

RECURSIVE Pow10(_)
Pow10(k) == IF k = 0 THEN 1 ELSE 10 * Pow10(k - 1)

\* The largest double, 1.7976931348623157e308, has 309 integer digits
MaxIntDigits == 309

\* 2^1024 - 2^970, from which a decimal rounds to Infinity: its leading digits
DoubleLimitPrefix == <<1, 7, 9, 7, 6, 9, 3, 1, 3, 4, 8, 6, 2, 3, 1, 5, 8>>

\* does a number of intDigits integer digits, leading digits n, round to Infinity
Overflows(n, intDigits) ==
    \/ intDigits > MaxIntDigits
    \/ /\ intDigits = MaxIntDigits
       /\ BigCmp(Take(n \o Zeros(Len(DoubleLimitPrefix)), Len(DoubleLimitPrefix)),
                 DoubleLimitPrefix) >= 0

\* (+/-) n * 10^(k - e) as a double: Infinity past the largest double, 0 below
\* the smallest (4.9e-324)
Scale10(neg, n, e, k) ==
    IF n = << >> THEN Num(neg, << >>, 0, 1)
    ELSE IF Overflows(n, Len(n) - e + k) THEN Inf(neg)
    ELSE IF Len(n) - e + k < -323 THEN Num(neg, << >>, 0, 1)
    ELSE IF k >= e THEN Num(neg, n \o Zeros(k - e), 0, 1)
    ELSE Num(neg, n, e - k, 1)

DigitsOf(s) == [i \in 1..Len(s) |-> DigitVal(s[i])]

InfinityText == <<"I", "n", "f", "i", "n", "i", "t", "y">>

NaNText == <<"N", "a", "N">>

\* the exponent's digits as a number (past four digits, any large number)
ExpAbs(d) == IF Len(d) > 4 THEN 99999 ELSE BigToInt(d)

ExpValue(r) == ExpAbs(BigNorm(DigitsOf(Take(r, DigitRunLen(r)))))

\* ExponentPart: e or E, a sign, digits; 0 when it is missing or has no digit
Exponent(r) ==
    IF r = << >> \/ Head(r) \notin {"e", "E"} THEN 0
    ELSE IF Len(r) >= 2 /\ r[2] = "-" THEN 0 - ExpValue(Drop(r, 2))
    ELSE IF Len(r) >= 2 /\ r[2] = "+" THEN ExpValue(Drop(r, 2))
    ELSE ExpValue(Drop(r, 1))

HasDot(r) == r # << >> /\ Head(r) = "."

FracLen(r) == IF HasDot(r) THEN DigitRunLen(Tail(r)) ELSE 0

ParseDigits(neg, int, frac, rest) ==
    IF int = << >> /\ frac = << >> THEN NaN
    ELSE Scale10(neg, BigNorm(DigitsOf(int \o frac)), Len(frac), Exponent(rest))

\* after the integer digits: "." and digits, then the exponent
ParseFraction(neg, int, r) ==
    ParseDigits(neg, int, SubSeq(r, 2, 1 + FracLen(r)),
                IF HasDot(r) THEN Drop(r, 1 + FracLen(r)) ELSE r)

ParseUnsigned(neg, u) ==
    IF StartsWith(u, InfinityText) THEN Inf(neg)
    ELSE ParseFraction(neg, Take(u, DigitRunLen(u)), Drop(u, DigitRunLen(u)))

ParseSigned(t) ==
    ParseUnsigned(t # << >> /\ Head(t) = "-",
                  IF t # << >> /\ Head(t) \in {"+", "-"} THEN Tail(t) ELSE t)

\* parseFloat: leading white space is skipped, the longest prefix that is a
\* StrDecimalLiteral is the value, whatever follows is ignored
ParseFloat(s) == ParseSigned(TrimStart(s))

\* quotient and remainder of n by q: the value is (quot + rem / q) / 10^e
Quot(v) == BigDivSmall(v.n, v.q)

DropLast(d, k) == IF Len(d) <= k THEN << >> ELSE SubSeq(d, 1, Len(d) - k)

\* the integer part of |v|
IntPart(v) == DropLast(Quot(v).quot, v.e)

IsWhole(d, e) ==
    /\ d.rem = 0
    /\ \A i \in 1..Len(d.quot) : i > Len(d.quot) - e => d.quot[i] = 0

\* v % 1 = 0
IsInteger(v) == v.kind = "num" /\ IsWhole(Quot(v), v.e)

TooLong(ip) == Overflows(ip, Len(ip))

\* a computed value as a double: Infinity past the largest double
Rounded(v) == IF v.kind = "num" /\ TooLong(IntPart(v)) THEN Inf(v.neg) ELSE v

\* A linear factor: (+/-) num / den, or Infinity
Factor(neg, num, den) == [kind |-> "num", neg |-> neg, num |-> num, den |-> den]

InfFactor(neg) == [kind |-> "inf", neg |-> neg, num |-> 0, den |-> 1]

\* the factor a parsed number is (finite or infinite)
FactorOf(v) ==
    IF v.kind = "inf" THEN InfFactor(v.neg)
    ELSE Factor(v.neg, BigToInt(v.n), Pow10(v.e))

\* 1 / factor
JsRecip(f) ==
    IF f.kind = "inf" THEN Factor(f.neg, 0, 1)
    ELSE IF f.num = 0 THEN InfFactor(f.neg)
    ELSE Factor(f.neg, f.den, f.num)

\* a * f, for a finite a
JsMul(a, f) ==
    IF f.kind = "inf"
    THEN IF IsZero(a) THEN NaN ELSE Inf(a.neg # f.neg)
    ELSE Rounded(Num(a.neg # f.neg, BigMulSmall(a.n, f.num), a.e, a.q * f.den))

\* (+/-) x / d + (+/-) y / d
SignedSum(xneg, x, yneg, y, cmp, e, q) ==
    IF xneg = yneg THEN Rounded(Num(xneg, BigAdd(x, y), e, q))
    ELSE IF cmp = 0 THEN Num(FALSE, << >>, e, q)
    ELSE IF cmp > 0 THEN Num(xneg, BigSub(x, y), e, q)
    ELSE Num(yneg, BigSub(y, x), e, q)

Aligned(xneg, x, yneg, y, e, q) == SignedSum(xneg, x, yneg, y, BigCmp(x, y), e, q)

\* a + (+/-) c / 10^m, for a finite a
JsAdd(a, neg, c, m) ==
    Aligned(a.neg, BigShift(a.n, Max(a.e, m) - a.e),
            neg, BigShift(BigMulSmall(IntToBig(c), a.q), Max(a.e, m) - m),
            Max(a.e, m), a.q)

\* a = b as numbers (NaN equals nothing, -0 = 0)
NumEq(a, b) ==
    /\ a.kind = b.kind
    /\ a.kind # "nan"
    /\ a.kind = "inf" => a.neg = b.neg
    /\ a.kind = "num" =>
          /\ (a.n = << >>) = (b.n = << >>)
          /\ a.n # << >> => a.neg = b.neg
          /\ BigMulSmall(BigShift(a.n, Max(a.e, b.e) - a.e), b.q)
                = BigMulSmall(BigShift(b.n, Max(a.e, b.e) - b.e), a.q)

(***************************************************************************)
(* Number to text                                                          *)
(***************************************************************************)
CharsOf(d) == [i \in 1..Len(d) |-> DigitChars[d[i] + 1]]

\* the digits of a natural number as text, "0" for zero
NatText(d) == IF d = << >> THEN <<"0">> ELSE CharsOf(d)

SignText(v) == IF v.neg THEN <<"-">> ELSE << >>

\* Number.prototype.toString of Infinity, NaN or an integral number below 1e21
\* (the only values whose toString the result keeps, see Format)
NumberToString(v) ==
    IF v.kind = "nan" THEN NaNText
    ELSE IF v.kind = "inf" THEN SignText(v) \o InfinityText
    ELSE IF v.n = << >> THEN <<"0">>
    ELSE SignText(v) \o NatText(IntPart(v))

\* the digits m of |v| * 10^f as text, "-" only when v is below zero
FixedText(v, f, m) ==
    (IF v.neg /\ v.n # << >> THEN <<"-">> ELSE << >>)
        \o CharsOf(SubSeq(m, 1, Len(m) - f))
        \o (IF f = 0 THEN << >> ELSE <<".">> \o CharsOf(SubSeq(m, Len(m) - f + 1, Len(m))))

\* |v| * 10^f is (qd + rem / q) / 10^e: round it to an integer, a tie going up
FixedRound(v, f, rem, qd) ==
    FixedText(v, f,
        PadLeft(BigAdd(BigNorm(SubSeq(qd, 1, Len(qd) - v.e)),
                       IF (IF v.e = 0 THEN 2 * rem >= v.q
                           ELSE qd[Len(qd) - v.e + 1] >= 5)
                       THEN <<1>> ELSE << >>),
                f + 1))

FixedQuot(v, f, d) == FixedRound(v, f, d.rem, PadLeft(d.quot, v.e))

\* Number.prototype.toFixed(f): the nearest multiple of 10^-f, a tie going to
\* the larger magnitude
ToFixed(v, f) ==
    IF v.kind # "num" THEN NumberToString(v)
    ELSE FixedQuot(v, f, BigDivSmall(BigShift(v.n, f), v.q))

\* the number of "0" characters s ends with
RECURSIVE TrailingZeros(_)
TrailingZeros(s) ==
    IF s = << >> \/ s[Len(s)] # "0" THEN 0
    ELSE 1 + TrailingZeros(SubSeq(s, 1, Len(s) - 1))

StripDot(s) ==
    IF s # << >> /\ s[Len(s)] = "." THEN SubSeq(s, 1, Len(s) - 1) ELSE s

StripRun(s, z) == IF z = 0 THEN s ELSE StripDot(SubSeq(s, 1, Len(s) - z))

\* s.replace(/\.?0+$/, ''): the leftmost match is the whole run of trailing
\* zeros, with the "." before it when there is one
StripZeros(s) == StripRun(s, TrailingZeros(s))

\* digits in groups of three, "," between them
RECURSIVE Grouped(_)
Grouped(d) ==
    IF Len(d) <= 3 THEN d
    ELSE Grouped(SubSeq(d, 1, Len(d) - 3)) \o <<",">> \o SubSeq(d, Len(d) - 2, Len(d))

\* Number.prototype.toLocaleString('en-US') of Infinity, NaN or an integral number
ToLocaleString(v) ==
    IF v.kind = "nan" THEN NaNText
    ELSE IF v.kind = "inf" THEN SignText(v) \o <<InfinitySign>>
    ELSE SignText(v) \o Grouped(NatText(IntPart(v)))

\* s.replace(/,/g, '')
RECURSIVE RemoveCommas(_)
RemoveCommas(s) ==
    IF s = << >> THEN << >>
    ELSE IF Head(s) = "," THEN RemoveCommas(Tail(s))
    ELSE <<Head(s)>> \o RemoveCommas(Tail(s))

\* the index of the first "." of s, Len(s) + 1 when it has none
RECURSIVE DotIndex(_)
DotIndex(s) == IF s = << >> \/ Head(s) = "." THEN 1 ELSE 1 + DotIndex(Tail(s))

\* Math.abs(v) >= 1000
AbsAtLeast1000(v) ==
    \/ v.kind = "inf"
    \/ v.kind = "num" /\ BigCmp(IntPart(v), IntToBig(1000)) >= 0

GroupAt(s, i) ==
    ToLocaleString(ParseFloat(RemoveCommas(SubSeq(s, 1, i - 1)))) \o SubSeq(s, i, Len(s))

\* parts = s.split('.'); parts[0] = parseFloat(parts[0].replace(/,/g, ''))
\*   .toLocaleString('en-US'); parts.join('.')     (s has one "." at most)
GroupThousands(s) == GroupAt(s, DotIndex(s))

\* a faulty variant of PlainText: the trailing zeros are kept
PlainTextUnstripped(converted) ==
    IF IsInteger(converted) THEN NumberToString(converted)
    ELSE ToFixed(converted, 8)

\* toString is taken of every value and kept when converted % 1 = 0; otherwise
\* toFixed(8) with the zeros stripped replaces it
PlainText(converted) ==
    IF IsInteger(converted) THEN NumberToString(converted)
    ELSE StripZeros(ToFixed(converted, 8))

GroupIfLarge(converted, formatted) ==
    IF AbsAtLeast1000(converted) THEN GroupThousands(formatted) ELSE formatted

\* the text of a computed value
Format(converted) == GroupIfLarge(converted, PlainText(converted))

(***************************************************************************)
(* The catalog                                                             *)
(***************************************************************************)
\* a faulty variant of Linear: the factor is cut to three decimals
LinearCut(from, to, num, den) ==
    [from |-> from, to |-> to, keys |-> {"factor"},
     factor |-> Factor(FALSE, (num * 1000) \div den, 1000), formula |-> "none"]

\* { from, to, factor }: the object has the key "factor" and not "formula"
Linear(from, to, num, den) ==
    [from |-> from, to |-> to, keys |-> {"factor"},
     factor |-> Factor(FALSE, num, den), formula |-> "none"]

\* a faulty variant of NonLinear: the object has a factor as well
NonLinearWithFactor(from, to, formula) ==
    [from |-> from, to |-> to, keys |-> {"formula", "factor"},
     factor |-> Factor(FALSE, 1, 1), formula |-> formula]

\* a faulty variant of NonLinear: the object has neither key
NonLinearWithoutFormula(from, to, formula) ==
    [from |-> from, to |-> to, keys |-> {},
     factor |-> Factor(FALSE, 0, 1), formula |-> "none"]

\* { from, to, formula }: the object has the key "formula" and not "factor"
NonLinear(from, to, formula) ==
    [from |-> from, to |-> to, keys |-> {"formula"},
     factor |-> Factor(FALSE, 0, 1), formula |-> formula]

\* undefined, what conversions[i] is when there is no such element
Undefined ==
    [from |-> "", to |-> "", keys |-> {"undefined"},
     factor |-> Factor(FALSE, 0, 1), formula |-> "none"]

COMPLEX_CONVERSION_DATA ==
    << [id |-> "length", label |-> "Length", conversions |-> <<
          Linear("Meters", "Feet", 328084, 100000),
          Linear("Feet", "Meters", 100000, 328084),
          Linear("Kilometers", "Miles", 621371, 1000000),
          Linear("Miles", "Kilometers", 1000000, 621371),
          Linear("Centimeters", "Inches", 393701, 1000000),
          Linear("Inches", "Centimeters", 1000000, 393701),
          Linear("Yards", "Meters", 9144, 10000),
          Linear("Meters", "Yards", 10000, 9144) >>],
       [id |-> "mass", label |-> "Mass", conversions |-> <<
          Linear("Kilograms", "Pounds", 220462, 100000),
          Linear("Pounds", "Kilograms", 100000, 220462),
          Linear("Grams", "Ounces", 35274, 1000000),
          Linear("Ounces", "Grams", 1000000, 35274),
          Linear("Pounds", "Ounces", 16, 1),
          Linear("Ounces", "Pounds", 1, 16),
          Linear("Tons", "Kilograms", 1000, 1),
          Linear("Kilograms", "Tons", 1, 1000) >>],
       [id |-> "temperature", label |-> "Temperature", conversions |-> <<
          NonLinear("Celsius", "Fahrenheit", "CtoF"),
          NonLinear("Fahrenheit", "Celsius", "FtoC"),
          NonLinear("Celsius", "Kelvin", "CtoK"),
          NonLinear("Kelvin", "Celsius", "KtoC"),
          NonLinear("Kelvin", "Fahrenheit", "KtoF"),
          NonLinear("Fahrenheit", "Kelvin", "FtoK") >>],
       [id |-> "volume", label |-> "Volume", conversions |-> <<
          Linear("Liters", "Gallons (US)", 264172, 1000000),
          Linear("Gallons (US)", "Liters", 1000000, 264172),
          Linear("Milliliters", "Fluid Ounces (US)", 33814, 1000000),
          Linear("Fluid Ounces (US)", "Milliliters", 1000000, 33814),
          Linear("Liters", "Cubic Meters", 1, 1000),
          Linear("Cubic Meters", "Liters", 1000, 1),
          Linear("Gallons (US)", "Gallons (UK)", 832674, 1000000),
          Linear("Gallons (UK)", "Gallons (US)", 1000000, 832674) >>],
       [id |-> "area", label |-> "Area", conversions |-> <<
          Linear("Square Meters", "Square Feet", 107639, 10000),
          Linear("Square Feet", "Square Meters", 10000, 107639),
          Linear("Square Kilometers", "Square Miles", 386102, 1000000),
          Linear("Square Miles", "Square Kilometers", 1000000, 386102),
          Linear("Hectares", "Acres", 247105, 100000),
          Linear("Acres", "Hectares", 100000, 247105) >>],
       [id |-> "time", label |-> "Time", conversions |-> <<
          Linear("Seconds", "Minutes", 1, 60),
          Linear("Minutes", "Seconds", 60, 1),
          Linear("Minutes", "Hours", 1, 60),
          Linear("Hours", "Minutes", 60, 1),
          Linear("Hours", "Days", 1, 24),
          Linear("Days", "Hours", 24, 1),
          Linear("Days", "Weeks", 1, 7),
          Linear("Weeks", "Days", 7, 1) >>],
       [id |-> "custom", label |-> "Custom", conversions |-> << >>] >>

\* a faulty variant of ApplyFormula: Kelvin is Celsius + 273
ApplyFormulaKelvin273(formula, x) ==
    CASE formula = "CtoF" -> JsAdd(JsMul(x, Factor(FALSE, 9, 5)), FALSE, 32, 0)
      [] formula = "FtoC" -> JsMul(JsAdd(x, TRUE, 32, 0), Factor(FALSE, 5, 9))
      [] formula = "CtoK" -> JsAdd(x, FALSE, 273, 0)
      [] formula = "KtoC" -> JsAdd(x, TRUE, 273, 0)
      [] formula = "KtoF" ->
            JsAdd(JsMul(JsAdd(x, TRUE, 273, 0), Factor(FALSE, 9, 5)), FALSE, 32, 0)
      [] formula = "FtoK" ->
            JsAdd(JsMul(JsAdd(x, TRUE, 32, 0), Factor(FALSE, 5, 9)), FALSE, 273, 0)

\* the formulas of the temperature category, in the order the code evaluates them
ApplyFormula(formula, x) ==
    CASE formula = "CtoF" -> JsAdd(JsMul(x, Factor(FALSE, 9, 5)), FALSE, 32, 0)
      [] formula = "FtoC" -> JsMul(JsAdd(x, TRUE, 32, 0), Factor(FALSE, 5, 9))
      [] formula = "CtoK" -> JsAdd(x, FALSE, 27315, 2)
      [] formula = "KtoC" -> JsAdd(x, TRUE, 27315, 2)
      [] formula = "KtoF" ->
            JsAdd(JsMul(JsAdd(x, TRUE, 27315, 2), Factor(FALSE, 9, 5)), FALSE, 32, 0)
      [] formula = "FtoK" ->
            JsAdd(JsMul(JsAdd(x, TRUE, 32, 0), Factor(FALSE, 5, 9)), FALSE, 27315, 2)

CategoryIds == {COMPLEX_CONVERSION_DATA[i].id : i \in 1..Len(COMPLEX_CONVERSION_DATA)}

(***************************************************************************)
(* The state of the screen                                                 *)
(***************************************************************************)
VARIABLES
    inputValue,             \* useState('')
    resultValue,            \* useState('')
    activeCategoryId,       \* useState('length')
    activeConversionIndex,  \* useState(0), an index from 0
    isSwapped,              \* useState(false)
    history,                \* useState([]), most recent first
    showHistory,            \* useState(false)
    customFromUnit,         \* useState('')
    customToUnit,           \* useState('')
    customFactor,           \* useState('')
    now,                    \* Date.now()
    last,                   \* the last event: its handler, the alert it raised,
                            \* and what convert did if the effect ran
    log,                    \* every entry convert has stored since the last clear
    nEvents                 \* events handled so far

screen == <<inputValue, resultValue, activeCategoryId, activeConversionIndex,
            isSwapped, history, showHistory, customFromUnit, customToUnit,
            customFactor>>

vars == <<inputValue, resultValue, activeCategoryId, activeConversionIndex,
          isSwapped, history, showHistory, customFromUnit, customToUnit,
          customFactor, now, last, log, nEvents>>

\* the state of one render, as a record
Cur ==
    [inputValue |-> inputValue, resultValue |-> resultValue,
     activeCategoryId |-> activeCategoryId,
     activeConversionIndex |-> activeConversionIndex,
     isSwapped |-> isSwapped, history |-> history, showHistory |-> showHistory,
     customFromUnit |-> customFromUnit, customToUnit |-> customToUnit,
     customFactor |-> customFactor]

(***************************************************************************)
(* What a render derives from the state (useMemo)                          *)
(***************************************************************************)
\* COMPLEX_CONVERSION_DATA.find(d => d.id === activeCategoryId), as the set of
\* the positions found first (empty for undefined)
ActiveCategory(s) ==
    {i \in 1..Len(COMPLEX_CONVERSION_DATA) :
        /\ COMPLEX_CONVERSION_DATA[i].id = s.activeCategoryId
        /\ \A j \in 1..(i - 1) : COMPLEX_CONVERSION_DATA[j].id # s.activeCategoryId}

Conversions(s) ==
    IF ActiveCategory(s) = {} THEN << >>
    ELSE COMPLEX_CONVERSION_DATA[CHOOSE i \in ActiveCategory(s) : TRUE].conversions

CategoryLabel(s) ==
    IF ActiveCategory(s) = {} THEN ""
    ELSE COMPLEX_CONVERSION_DATA[CHOOSE i \in ActiveCategory(s) : TRUE].label

\* x || d for a string x
OrElse(x, d) == IF x = "" THEN d ELSE x

\* a faulty variant of FactorOrZero: 1 for a factor that is not a number
FactorOrOne(factorNum) ==
    IF IsNaN(factorNum) THEN Factor(FALSE, 1, 1) ELSE FactorOf(factorNum)

\* isNaN(factorNum) ? 0 : factorNum
FactorOrZero(factorNum) ==
    IF IsNaN(factorNum) THEN Factor(FALSE, 0, 1) ELSE FactorOf(factorNum)

CustomFactorValue(text) == FactorOrZero(ParseFloat(text))

\* activeCategory?.conversions[activeConversionIndex]
RuleAt(conversions, index) ==
    IF index + 1 \in 1..Len(conversions) THEN conversions[index + 1] ELSE Undefined

CurrentConversionSet(s) ==
    IF s.activeCategoryId = "custom"
    THEN [from |-> OrElse(s.customFromUnit, "Unit A"),
          to |-> OrElse(s.customToUnit, "Unit B"),
          keys |-> {"factor"},
          factor |-> CustomFactorValue(s.customFactor),
          formula |-> "none"]
    ELSE RuleAt(Conversions(s), s.activeConversionIndex)

\* a faulty variant of UnitsOf: the custom names are shown as typed
UnitsOfAsTyped(s, rule) ==
    IF s.activeCategoryId = "custom"
    THEN IF s.isSwapped
         THEN <<s.customToUnit, s.customFromUnit>>
         ELSE <<s.customFromUnit, s.customToUnit>>
    ELSE IF "undefined" \notin rule.keys
    THEN IF "formula" \in rule.keys THEN <<rule.from, rule.to>>
         ELSE IF s.isSwapped THEN <<rule.to, rule.from>>
         ELSE <<rule.from, rule.to>>
    ELSE <<"", "">>

UnitsOf(s, rule) ==
    IF s.activeCategoryId = "custom"
    THEN IF s.isSwapped
         THEN <<OrElse(s.customToUnit, "Unit B"), OrElse(s.customFromUnit, "Unit A")>>
         ELSE <<OrElse(s.customFromUnit, "Unit A"), OrElse(s.customToUnit, "Unit B")>>
    ELSE IF "undefined" \notin rule.keys
    THEN IF "formula" \in rule.keys THEN <<rule.from, rule.to>>
         ELSE IF s.isSwapped THEN <<rule.to, rule.from>>
         ELSE <<rule.from, rule.to>>
    ELSE <<"", "">>

\* [inputUnit, outputUnit]
Units(s) == UnitsOf(s, CurrentConversionSet(s))

InputUnit(s) == Units(s)[1]

OutputUnit(s) == Units(s)[2]

\* The identity of the object currentConversionSet holds: the catalog's own
\* object, or the one the memo builds afresh whenever a dependency changes
RuleIdentity(s) ==
    IF s.activeCategoryId = "custom"
    THEN <<"custom", s.activeConversionIndex, s.customFromUnit, s.customToUnit,
           s.customFactor>>
    ELSE <<s.activeCategoryId, s.activeConversionIndex>>

\* the dependencies of useCallback(convert): a change of any makes a new convert
ConvertIdentity(s) ==
    <<s.inputValue, RuleIdentity(s), s.isSwapped, Units(s), ActiveCategory(s),
      s.activeCategoryId, s.customFactor, s.customFromUnit, s.customToUnit>>

\* a faulty variant of EffectDeps: the history panel's flag is a dependency
EffectDepsWithPanel(s) ==
    <<s.inputValue, RuleIdentity(s), s.isSwapped, ConvertIdentity(s), s.showHistory>>

\* a faulty variant of EffectDeps: the result is a dependency
EffectDepsWithResult(s) ==
    <<s.inputValue, RuleIdentity(s), s.isSwapped, ConvertIdentity(s), s.resultValue>>

\* a faulty variant of EffectDeps: the input is the only dependency
EffectDepsInputOnly(s) == <<s.inputValue>>

\* the dependencies of the effect that calls convert
EffectDeps(s) == <<s.inputValue, RuleIdentity(s), s.isSwapped, ConvertIdentity(s)>>

(***************************************************************************)
(* convert                                                                 *)
(***************************************************************************)
ErrorText == <<"E", "r", "r", "o", "r">>

ZeroFactorText ==
    <<"F", "a", "c", "t", "o", "r", " ", "m", "u", "s", "t", " ", "b", "e", " ",
      "n", "o", "n", "-", "z", "e", "r", "o">>

NoFormulaText ==
    <<"E", "r", "r", "o", "r", ":", " ", "N", "o", " ", "f", "o", "r", "m", "u",
      "l", "a", "/", "f", "a", "c", "t", "o", "r">>

\* how many entries setHistory keeps
HistoryLimit == 10

\* a faulty variant of Stored: the list is never cut
StoredUncut(historyItem, prev) == <<historyItem>> \o prev

\* [historyItem, ...prev].slice(0, 10)
Stored(historyItem, prev) == Take(<<historyItem>> \o prev, HistoryLimit)

\* a faulty variant of HistoryCategory: the category's label in custom mode too
HistoryCategoryLabel(s) == CategoryLabel(s)

\* `Custom: ${customFromUnit || 'Unit A'} <-> ${customToUnit || 'Unit B'}`, or
\* activeCategory?.label || ''   (<-> stands for U+2194)
HistoryCategory(s) ==
    IF s.activeCategoryId = "custom"
    THEN "Custom: " \o OrElse(s.customFromUnit, "Unit A") \o " <-> "
            \o OrElse(s.customToUnit, "Unit B")
    ELSE CategoryLabel(s)

\* a faulty variant of HistoryItem: the input is stored as typed
HistoryItemAsTyped(s, t, trimmedInput, formatted, units) ==
    [id |-> t, timestamp |-> t, inputValue |-> s.inputValue,
     inputUnit |-> units[1], resultValue |-> formatted,
     outputUnit |-> units[2], category |-> HistoryCategory(s)]

HistoryItem(s, t, trimmedInput, formatted, units) ==
    [id |-> t, timestamp |-> t, inputValue |-> trimmedInput,
     inputUnit |-> units[1], resultValue |-> formatted,
     outputUnit |-> units[2], category |-> HistoryCategory(s)]

\* a faulty variant of LinearValue: the direction is ignored
LinearValueForward(num, factor, swapped) == JsMul(num, factor)

\* num * (1 / factor) when swapped, num * factor otherwise
LinearValue(num, factor, swapped) ==
    IF swapped THEN JsMul(num, JsRecip(factor)) ELSE JsMul(num, factor)

\* what one call of convert leaves: the result, the history, the branch taken
Outcome(result, hist, branch, num, converted) ==
    [resultValue |-> result, history |-> hist, branch |-> branch, num |-> num,
     converted |-> converted, stored |-> branch = "stored"]

\* setResultValue(formatted), and the history item when the input is valid
Display(s, t, trimmedInput, num, converted, formatted) ==
    IF trimmedInput # << >> /\ ~IsNaN(num) /\ IsFinite(num)
    THEN Outcome(formatted,
                 Stored(HistoryItem(s, t, trimmedInput, formatted, Units(s)), s.history),
                 "stored", num, converted)
    ELSE Outcome(formatted, s.history, "shown", num, converted)

Computed(s, t, trimmedInput, num, converted) ==
    Display(s, t, trimmedInput, num, converted, Format(converted))

\* the try block
Compute(s, t, rule, trimmedInput, num) ==
    IF "formula" \in rule.keys
    THEN Computed(s, t, trimmedInput, num, ApplyFormula(rule.formula, num))
    ELSE IF "factor" \in rule.keys
    THEN IF s.activeCategoryId = "custom" /\ rule.factor.kind = "num"
            /\ rule.factor.num = 0
         THEN Outcome(ZeroFactorText, s.history, "zerofactor", num, NaN)
         ELSE Computed(s, t, trimmedInput, num,
                       LinearValue(num, rule.factor, s.isSwapped))
    ELSE Outcome(NoFormulaText, s.history, "malformed", num, NaN)

\* a faulty variant of Parsed: no isNaN check
ParsedNoNaNCheck(s, t, rule, trimmedInput, num) ==
    IF ~IsFinite(num) THEN Outcome(ErrorText, s.history, "nonfinite", num, NaN)
    ELSE Compute(s, t, rule, trimmedInput, num)

\* a faulty variant of Parsed: no isFinite check
ParsedNoFiniteCheck(s, t, rule, trimmedInput, num) ==
    IF IsNaN(num) THEN Outcome(<< >>, s.history, "nan", num, NaN)
    ELSE IF ~IsFinite(num)
    THEN Display(s, t, trimmedInput, num, num, ToLocaleString(num))
    ELSE Compute(s, t, rule, trimmedInput, num)

Parsed(s, t, rule, trimmedInput, num) ==
    IF IsNaN(num) THEN Outcome(<< >>, s.history, "nan", num, NaN)
    ELSE IF ~IsFinite(num) THEN Outcome(ErrorText, s.history, "nonfinite", num, NaN)
    ELSE Compute(s, t, rule, trimmedInput, num)

Trimmed(s, t, rule, trimmedInput) ==
    IF "undefined" \in rule.keys
    THEN Outcome(s.resultValue, s.history, "undefined", NaN, NaN)
    ELSE IF trimmedInput = << >> \/ trimmedInput = <<"-">>
    THEN Outcome(<< >>, s.history, "empty", NaN, NaN)
    ELSE Parsed(s, t, rule, trimmedInput, ParseFloat(trimmedInput))

\* convert(), called in the render whose state is s at time t.  Nothing in the
\* try block throws for the numbers and texts of this model, so its catch
\* (setResultValue('Error')) has no case here.
convert(s, t) == Trimmed(s, t, CurrentConversionSet(s), Trim(s.inputValue))

(***************************************************************************)
(* The handlers: the state each leaves for the next render, and the title  *)
(* of the alert it raises ("" for none)                                    *)
(***************************************************************************)
Handled(s, alert) == [state |-> s, alert |-> alert]

\* a faulty variant of IsTemperature: the first rule of the category only
IsFirstTemperatureRule(s) ==
    s.activeCategoryId = "temperature" /\ s.activeConversionIndex = 0

IsTemperature(s) == s.activeCategoryId = "temperature"

IsCustom(s) == s.activeCategoryId = "custom"

\* parseFloat(customFactor) === 0
CustomFactorIsZero(s) == IsZero(ParseFloat(s.customFactor))

\* a faulty variant of IsSwapDisabled: disabled for temperature only
IsSwapDisabledForTemperature(s) == IsTemperature(s)

\* isSwapDisabled, the disabled flag of the swap control
IsSwapDisabled(s) == IsTemperature(s) \/ (IsCustom(s) /\ CustomFactorIsZero(s))

\* a faulty variant of swapConversion: the input is kept
swapConversionKeepingInput(s) ==
    IF IsTemperature(s) THEN Handled(s, "Non-Linear Unit")
    ELSE IF IsCustom(s) /\ CustomFactorIsZero(s) THEN Handled(s, "Invalid Factor")
    ELSE Handled([s EXCEPT !.isSwapped = ~s.isSwapped,
                           !.resultValue = << >>], "")

swapConversion(s) ==
    IF IsTemperature(s) THEN Handled(s, "Non-Linear Unit")
    ELSE IF IsCustom(s) /\ CustomFactorIsZero(s) THEN Handled(s, "Invalid Factor")
    ELSE Handled([s EXCEPT !.isSwapped = ~s.isSwapped,
                           !.resultValue = << >>,
                           !.inputValue = s.resultValue], "")

\* a faulty variant of handleCategoryChange: the direction is kept
handleCategoryChangeKeepingDirection(s, categoryId) ==
    Handled([s EXCEPT !.activeCategoryId = categoryId,
                      !.activeConversionIndex = 0,
                      !.inputValue = << >>,
                      !.resultValue = << >>], "")

\* a faulty variant of handleCategoryChange: the rule index is kept
handleCategoryChangeKeepingIndex(s, categoryId) ==
    Handled([s EXCEPT !.activeCategoryId = categoryId,
                      !.isSwapped = FALSE,
                      !.inputValue = << >>,
                      !.resultValue = << >>], "")

handleCategoryChange(s, categoryId) ==
    Handled([s EXCEPT !.activeCategoryId = categoryId,
                      !.activeConversionIndex = 0,
                      !.isSwapped = FALSE,
                      !.inputValue = << >>,
                      !.resultValue = << >>], "")

\* a faulty variant of handleUnitChange: the history is dropped
handleUnitChangeDroppingHistory(s, index) ==
    Handled([s EXCEPT !.activeConversionIndex = index,
                      !.isSwapped = FALSE,
                      !.inputValue = << >>,
                      !.resultValue = << >>,
                      !.history = << >>], "")

\* a faulty variant of handleUnitChange: the input is kept
handleUnitChangeKeepingInput(s, index) ==
    Handled([s EXCEPT !.activeConversionIndex = index,
                      !.isSwapped = FALSE,
                      !.resultValue = << >>], "")

handleUnitChange(s, index) ==
    Handled([s EXCEPT !.activeConversionIndex = index,
                      !.isSwapped = FALSE,
                      !.inputValue = << >>,
                      !.resultValue = << >>], "")

\* a faulty variant of historyItemPress: the direction is reset as well
historyItemPressResettingDirection(s, item) ==
    Handled([s EXCEPT !.inputValue = item.inputValue, !.showHistory = FALSE,
                      !.isSwapped = FALSE], "")

\* onPress of a history item
historyItemPress(s, item) ==
    Handled([s EXCEPT !.inputValue = item.inputValue, !.showHistory = FALSE], "")

\* onPress of Clear History
clearHistory(s) == Handled([s EXCEPT !.history = << >>, !.showHistory = FALSE], "")

\* onPress of the history toggle
toggleHistory(s) == Handled([s EXCEPT !.showHistory = ~s.showHistory], "")

(***************************************************************************)
(* One event: the handler's writes are rendered at once; the effect calls  *)
(* convert in that render when one of its dependencies changed.  convert   *)
(* writes resultValue and history only, neither a dependency, so the       *)
(* render that follows calls nothing more.                                 *)
(***************************************************************************)
\* the state of the render that follows the effect: convert's writes applied
AfterEffect(s, run, c) ==
    [s EXCEPT !.resultValue = IF run THEN c.resultValue ELSE @,
              !.history = IF run THEN c.history ELSE @]

Commit(name, alert, s, run, c) ==
    /\ inputValue' = s.inputValue
    /\ resultValue' = IF run THEN c.resultValue ELSE s.resultValue
    /\ activeCategoryId' = s.activeCategoryId
    /\ activeConversionIndex' = s.activeConversionIndex
    /\ isSwapped' = s.isSwapped
    /\ history' = IF run THEN c.history ELSE s.history
    /\ showHistory' = s.showHistory
    /\ customFromUnit' = s.customFromUnit
    /\ customToUnit' = s.customToUnit
    /\ customFactor' = s.customFactor
    /\ last' = [event |-> name, alert |-> alert, ran |-> run,
                branch |-> IF run THEN c.branch ELSE "none",
                num |-> IF run THEN c.num ELSE NaN,
                converted |-> IF run THEN c.converted ELSE NaN,
                again |-> EffectDeps(AfterEffect(s, run, c)) # EffectDeps(s)]
    /\ log' = IF name = "clearHistory" THEN << >>
              ELSE IF run /\ c.stored THEN <<c.history[1]>> \o log
              ELSE log
    /\ now' = now

Event(name, h) ==
    Commit(name, h.alert, h.state, EffectDeps(h.state) # EffectDeps(Cur),
           convert(h.state, now))

\* onChangeText of the input
ChangeInputText(text) == Event("inputText", Handled([Cur EXCEPT !.inputValue = text], ""))

CategoryPress(categoryId) ==
    Event("handleCategoryChange", handleCategoryChange(Cur, categoryId))

\* the unit selector is rendered for a catalog category, one button a rule
UnitPress(index) ==
    /\ ActiveCategory(Cur) # {}
    /\ ~IsCustom(Cur)
    /\ index + 1 \in 1..Len(Conversions(Cur))
    /\ Event("handleUnitChange", handleUnitChange(Cur, index))

\* handleSwapPress.  The control is disabled when isSwapDisabled; swapConversion
\* keeps its own guards, and the model lets it be called in every state.
SwapPress == Event("swapConversion", swapConversion(Cur))

\* the custom inputs are rendered in custom mode only
ChangeCustomFromUnit(text) ==
    /\ IsCustom(Cur)
    /\ Event("customFromUnit", Handled([Cur EXCEPT !.customFromUnit = text], ""))

ChangeCustomToUnit(text) ==
    /\ IsCustom(Cur)
    /\ Event("customToUnit", Handled([Cur EXCEPT !.customToUnit = text], ""))

ChangeCustomFactor(text) ==
    /\ IsCustom(Cur)
    /\ Event("customFactor", Handled([Cur EXCEPT !.customFactor = text], ""))

\* the toggle is rendered when the history is not empty
ToggleHistoryPress ==
    /\ Len(history) > 0
    /\ Event("toggleHistory", toggleHistory(Cur))

\* the panel is rendered when showHistory and the history is not empty
HistoryItemPress(i) ==
    /\ showHistory /\ Len(history) > 0
    /\ i \in 1..Len(history)
    /\ Event("historyItemPress", historyItemPress(Cur, history[i]))

ClearHistoryPress ==
    /\ showHistory /\ Len(history) > 0
    /\ Event("clearHistory", clearHistory(Cur))

\* onScroll, onLayout and onContentSizeChange of the two selectors set the
\* fade flags, which nothing else reads: a render with the same screen state
FadeUpdate == Event("fadeUpdate", Handled(Cur, ""))

\* time passes between events (Date.now() is read by convert only)
Tick ==
    /\ now' = now + 1
    /\ UNCHANGED <<screen, last, log>>

(***************************************************************************)
(* Specifications                                                          *)
(***************************************************************************)
\* the state after the first render and its effect (convert sets '' for '')
Init ==
    /\ inputValue = << >>
    /\ resultValue = << >>
    /\ activeCategoryId = "length"
    /\ activeConversionIndex = 0
    /\ isSwapped = FALSE
    /\ history = << >>
    /\ showHistory = FALSE
    /\ customFromUnit = ""
    /\ customToUnit = ""
    /\ customFactor = << >>
    /\ now = 0
    /\ last = [event |-> "mount", alert |-> "", ran |-> TRUE, branch |-> "empty",
               num |-> NaN, converted |-> NaN, again |-> FALSE]
    /\ log = << >>
    /\ nEvents = 0

\* Bounds of the model: events of a behaviour of Spec; conversions stored and
\* clock ticks of a behaviour of SpecHistory
MaxEvents == 4

MaxLog == 12

MaxTime == 2

\* Texts typed into the input
InputTexts ==
    { << >>, <<"-">>, <<"a", "b", "c">>, <<" ", "5", " ">>, <<"1", "0", "0", "0">>,
      <<"1", "e", "9", "9", "9">> }

\* Texts typed into the custom fields
CustomNames == {"", "USD"}

CustomFactorTexts == { << >>, <<"0">>, <<"2", ".", "5">>, InfinityText }

\* one more event of a bounded number
Budget == nEvents < MaxEvents /\ nEvents' = nEvents + 1

\* Any event on any selection, a bounded number of events
Next ==
    \/ \E text \in InputTexts : Budget /\ ChangeInputText(text)
    \/ \E categoryId \in CategoryIds : Budget /\ CategoryPress(categoryId)
    \/ \E index \in 0..7 : Budget /\ UnitPress(index)
    \/ Budget /\ SwapPress
    \/ \E text \in CustomNames : Budget /\ ChangeCustomFromUnit(text)
    \/ \E text \in CustomNames : Budget /\ ChangeCustomToUnit(text)
    \/ \E text \in CustomFactorTexts : Budget /\ ChangeCustomFactor(text)
    \/ Budget /\ ToggleHistoryPress
    \/ \E i \in 1..HistoryLimit : Budget /\ HistoryItemPress(i)
    \/ Budget /\ ClearHistoryPress
    \/ Budget /\ FadeUpdate

Spec == Init /\ [][Next]_vars

\* Texts typed into the input in SpecHistory
HistoryTexts == { <<"1">>, <<"2", ".", "5">> }

\* room for one more conversion in the log
Room == Len(log) < MaxLog /\ UNCHANGED nEvents

\* Many conversions in a row on the first selection, the clock ticking in between
NextHistory ==
    \/ \E text \in HistoryTexts : Room /\ ChangeInputText(text)
    \/ now < MaxTime /\ Tick /\ UNCHANGED nEvents
    \/ Room /\ ToggleHistoryPress
    \/ \E i \in 1..HistoryLimit : Room /\ HistoryItemPress(i)
    \/ Room /\ ClearHistoryPress

SpecHistory == Init /\ [][NextHistory]_vars

\* Temperatures typed into the input in SpecTemperature
TemperatureTexts == { <<"0">>, <<"3", "2">>, <<"1", "0", "0">>, <<"-", "4", "0">> }

\* The temperature category: its rules, a few temperatures, the swap control
NextTemperature ==
    \/ \E text \in TemperatureTexts : Budget /\ ChangeInputText(text)
    \/ Budget /\ CategoryPress("temperature")
    \/ \E index \in 0..7 : Budget /\ UnitPress(index)
    \/ Budget /\ SwapPress

SpecTemperature == Init /\ [][NextTemperature]_vars

(***************************************************************************)
(* Properties                                                              *)
(***************************************************************************)
\* the step leaves the history as it was, or is the press of Clear History
HistoryKept ==
    \/ history' = history
    \/ last'.event = "clearHistory" /\ history' = << >>

\* C1: the history holds at most 10 entries, and it is the 10 most recent of
\* the conversions stored since the last clear, the most recent first: each
\* stored conversion goes to the front, and from the 11th on the oldest are gone
C1_HistoryIsTenMostRecent ==
    /\ Len(history) <= HistoryLimit
    /\ history = Take(log, HistoryLimit)
    /\ Len(log) > HistoryLimit =>
          /\ Len(history) = HistoryLimit
          /\ \A i \in 1..HistoryLimit : history[i] = log[i]

\* 11 or more conversions were stored with no clear in between, the last one
\* by this step, at a later time than the oldest
C1_Witness ==
    /\ Len(log) > HistoryLimit
    /\ last.branch = "stored"
    /\ log[1].id > log[Len(log)].id
    /\ log[1].inputValue # log[2].inputValue

\* the trimmed input is empty, a bare "-", or not the start of a number
BlankInput(text) ==
    \/ Trim(text) = << >>
    \/ Trim(text) = <<"-">>
    \/ IsNaN(ParseFloat(Trim(text)))

\* C2: whatever the selection, after every step that leaves an input which
\* trimmed is empty, "-" or non-numeric, the result is blank and the step has
\* added nothing to the history
C2_BlankInputBlankResult ==
    [][BlankInput(inputValue') => resultValue' = << >> /\ HistoryKept]_vars

\* "abc" was typed over a history
C2_Witness ==
    /\ last.event = "inputText" /\ last.ran
    /\ inputValue = <<"a", "b", "c">>
    /\ resultValue = << >>
    /\ history # << >>

\* the trimmed input parses to Infinity or -Infinity
NonFiniteInput(text) ==
    /\ ~IsNaN(ParseFloat(Trim(text)))
    /\ ~IsFinite(ParseFloat(Trim(text)))

\* C3: whatever the selection, after every step that leaves an input parsing
\* to a non-finite number, the result is "Error" and the step has added
\* nothing to the history
C3_NonFiniteInputError ==
    [][NonFiniteInput(inputValue') => resultValue' = ErrorText /\ HistoryKept]_vars

\* "1e999" was typed over a history
C3_Witness ==
    /\ last.event = "inputText" /\ last.ran
    /\ inputValue = <<"1", "e", "9", "9", "9">>
    /\ resultValue = ErrorText
    /\ history # << >>

\* the state the step leaves
CurNext ==
    [inputValue |-> inputValue', resultValue |-> resultValue',
     activeCategoryId |-> activeCategoryId',
     activeConversionIndex |-> activeConversionIndex', isSwapped |-> isSwapped',
     history |-> history', showHistory |-> showHistory',
     customFromUnit |-> customFromUnit', customToUnit |-> customToUnit',
     customFactor |-> customFactor']

\* the step is a call of swapConversion
SwapAttempt == last'.event = "swapConversion"

\* C4: a swap attempted while the active rule has a formula changes nothing,
\* whatever the input: flag, input, result, selection and history stay
C4_NonLinearSwapRejected ==
    [][SwapAttempt /\ "formula" \in CurrentConversionSet(Cur).keys
          => CurNext = Cur]_vars

\* the swap was attempted on the last formula rule, Fahrenheit to Kelvin, over
\* an input and its result
C4_Witness ==
    /\ last.event = "swapConversion" /\ last.alert = "Non-Linear Unit"
    /\ "formula" \in CurrentConversionSet(Cur).keys
    /\ activeConversionIndex = 5
    /\ inputValue # << >> /\ resultValue # << >>

\* the factor custom mode resolves from the text is 0
ResolvesToZero(text) == IsNaN(ParseFloat(text)) \/ IsZero(ParseFloat(text))

\* C5: in custom mode a swap attempted while the factor text resolves to 0
\* (the text is "0", empty or unparsable) leaves flag, input and result as they were
C5_ZeroFactorSwapRejected ==
    [][SwapAttempt /\ IsCustom(Cur) /\ ResolvesToZero(customFactor)
          => /\ isSwapped' = isSwapped
             /\ inputValue' = inputValue
             /\ resultValue' = resultValue]_vars

\* the trimmed input parses to a finite number
FiniteInput(text) ==
    /\ Trim(text) \notin {<< >>, <<"-">>}
    /\ IsFinite(ParseFloat(Trim(text)))

\* C6: in custom mode, after every step that leaves a factor text resolving
\* to 0 and an input parsing to a finite number, the result is "Factor must be
\* non-zero" and the step has added nothing to the history, swapped or not
C6_ZeroFactorMessage ==
    [][activeCategoryId' = "custom" /\ ResolvesToZero(customFactor')
          /\ FiniteInput(inputValue')
          => resultValue' = ZeroFactorText /\ HistoryKept]_vars

\* a number was typed in swapped custom mode with an empty factor text, over a
\* history
C6_Witness ==
    /\ last.event = "inputText" /\ last.ran
    /\ IsCustom(Cur) /\ isSwapped /\ customFactor = << >>
    /\ FiniteInput(inputValue)
    /\ resultValue = ZeroFactorText
    /\ history # << >>

\* x * f and x / f in exact arithmetic, f = num / den
Times(x, f) == Num(x.neg # f.neg, BigMulSmall(x.n, f.num), x.e, x.q * f.den)

Over(x, f) == Num(x.neg # f.neg, BigMulSmall(x.n, f.den), x.e, x.q * f.num)

\* x * f (forward) or x / f (swapped) for a non-zero factor, Infinity included
ExpectedLinear(x, f, swapped) ==
    IF f.kind = "inf"
    THEN IF swapped THEN Num(x.neg # f.neg, << >>, 0, 1)
         ELSE IF IsZero(x) THEN NaN ELSE Inf(x.neg # f.neg)
    ELSE IF swapped THEN Over(x, f) ELSE Times(x, f)

SameValue(a, b) == (a.kind = "nan" /\ b.kind = "nan") \/ NumEq(a, b)

NonZeroFactor(f) == f.kind = "inf" \/ f.num # 0

\* C7: when convert has computed a value from a finite input x by a rule with
\* a non-zero factor f (of the catalog or custom), the value is x * f forward
\* and x / f swapped
C7_LinearValue ==
    last.ran /\ last.branch \in {"stored", "shown"}
        /\ "factor" \in CurrentConversionSet(Cur).keys
        /\ NonZeroFactor(CurrentConversionSet(Cur).factor)
    => SameValue(last.converted,
                 ExpectedLinear(last.num, CurrentConversionSet(Cur).factor, isSwapped))

\* a swapped conversion by a catalog factor that is not a whole number
C7_Witness ==
    /\ last.ran /\ last.branch = "stored"
    /\ isSwapped /\ ~IsCustom(Cur)
    /\ CurrentConversionSet(Cur).factor.den > 1
    /\ ~IsZero(last.num)

AbsDiff(a, b) == IF BigCmp(a, b) >= 0 THEN BigSub(a, b) ELSE BigSub(b, a)

\* |a - x| <= x / 10^6 for natural numbers a, x
CloseMagnitudes(a, x) == BigCmp(BigShift(AbsDiff(a, x), 6), x) <= 0

\* a = x within 1e-6 relative tolerance, both finite
Close(a, x) ==
    /\ a.kind = "num" /\ x.kind = "num"
    /\ IF a.n = << >> \/ x.n = << >> THEN a.n = x.n
       ELSE /\ a.neg = x.neg
            /\ CloseMagnitudes(
                  BigMulSmall(BigShift(a.n, Max(a.e, x.e) - a.e), x.q),
                  BigMulSmall(BigShift(x.n, Max(a.e, x.e) - x.e), a.q))

\* C8: for a linear rule, when a finite x has been entered and converted and
\* swap is pressed next, convert computes from the fed-back result a value
\* equal to x within 1e-6 relative tolerance
C8_SwapRoundTrip ==
    [][SwapAttempt /\ last'.alert = ""
          /\ last.event = "inputText" /\ last.branch = "stored"
          /\ "factor" \in CurrentConversionSet(Cur).keys
          => /\ last'.branch \in {"stored", "shown"}
             /\ Close(last'.converted, last.num)]_vars

\* C9: an accepted swap flips the flag, makes the result displayed before it
\* the new input, and exchanges the displayed input and output units
C9_AcceptedSwap ==
    [][SwapAttempt /\ last'.alert = ""
          => /\ isSwapped' = ~isSwapped
             /\ inputValue' = resultValue
             /\ InputUnit(CurNext) = OutputUnit(Cur)
             /\ OutputUnit(CurNext) = InputUnit(Cur)]_vars

\* a swap was accepted over a displayed result that differs from the input it
\* replaced: the input is now that result, read in the other direction
C9_Witness ==
    /\ last.event = "swapConversion" /\ last.alert = ""
    /\ isSwapped
    /\ inputValue = <<"1", "6", ".", "4", "0", "4", "2">>
    /\ InputUnit(Cur) = "Feet" /\ OutputUnit(Cur) = "Meters"

\* an optional "-", digits with "," between them, at most one "."
IsNumberText(s) ==
    /\ \E i \in 1..Len(s) : IsDigit(s[i])
    /\ \A i \in 1..Len(s) :
          IsDigit(s[i]) \/ s[i] \in {",", "."} \/ (i = 1 /\ s[i] = "-")
    /\ Cardinality({i \in 1..Len(s) : s[i] = "."}) <= 1

\* C10: the result is blank, the text of a finite number, or one of "Error",
\* "Factor must be non-zero", "Error: No formula/factor"
C10_ResultIsBlankNumberOrError ==
    \/ resultValue = << >>
    \/ resultValue \in {ErrorText, ZeroFactorText, NoFormulaText}
    \/ IsNumberText(resultValue)

\* the text of an entry's result is blank or one of the error texts
BlankOrError(text) == text \in {<< >>, ErrorText, ZeroFactorText, NoFormulaText}

\* C11: every entry of the history was made by a successful conversion: its
\* inputValue is trimmed, not empty, and parses to a finite number, and its
\* resultValue is neither blank nor an error text
C11_HistoryEntriesValid ==
    \A i \in 1..Len(history) :
        /\ history[i].inputValue # << >>
        /\ Trim(history[i].inputValue) = history[i].inputValue
        /\ IsFinite(ParseFloat(history[i].inputValue))
        /\ ~BlankOrError(history[i].resultValue)

\* an entry made from an input typed with spaces around it is in the history,
\* and the conversion after it ended in an error text
C11_Witness ==
    /\ history # << >>
    /\ inputValue = <<" ", "5", " ">>
    /\ history[1].inputValue = <<"5">>
    /\ resultValue = ZeroFactorText

\* the selection state: category, rule index, direction and the custom texts
Selection(s) ==
    <<s.activeCategoryId, s.activeConversionIndex, s.isSwapped, s.customFromUnit,
      s.customToUnit, s.customFactor>>

\* C12: an event that changes neither the input text nor the selection does
\* not run the conversion again: the result stays and no entry is added to the
\* history (toggling or clearing the history, fade updates, the tap on an
\* entry whose input is the current input)
C12_NoRerunWithoutChange ==
    [][inputValue' = inputValue /\ Selection(CurNext) = Selection(Cur)
          => /\ resultValue' = resultValue
             /\ HistoryKept
             /\ nEvents' # nEvents => ~last'.ran]_vars

\* an entry whose input is the current input was tapped, over a result
C12_Witness ==
    /\ last.event = "historyItemPress" /\ ~last.ran
    /\ Len(history) = 1
    /\ history[1].inputValue = inputValue
    /\ resultValue = history[1].resultValue

\* C13: one event runs convert once at most and adds one entry at most to
\* the history, and the render after convert's writes to result and history
\* does not run it again
C13_OneRecomputationThenQuiet ==
    [][/\ ~last'.again
       /\ Len(history') <= Len(history) + 1
       /\ Len(log') <= Len(log) + 1
       /\ last'.ran => EffectDeps(CurNext) = EffectDeps([CurNext EXCEPT
                                                 !.resultValue = resultValue,
                                                 !.history = history])]_vars

\* an accepted swap ran convert, which wrote a new result and a second entry
C13_Witness ==
    /\ last.event = "swapConversion" /\ last.ran /\ last.branch = "stored"
    /\ ~last.again
    /\ Len(history) = 2
    /\ resultValue # history[2].resultValue

\* C14: the swapped flag is false whenever the active category is temperature,
\* the category of the rules with a formula
C14_NotSwappedInTemperature ==
    IsTemperature(Cur) \/ "formula" \in CurrentConversionSet(Cur).keys => ~isSwapped

\* temperature was selected after a swapped conversion in another category,
\* and a swap was then attempted there
C14_Witness ==
    /\ IsTemperature(Cur)
    /\ ~isSwapped
    /\ last.alert = "Non-Linear Unit"
    /\ \E i \in 1..Len(history) : history[i].inputUnit = "Feet"

\* C15: the selection resolves to a rule: the category id is an id of the
\* catalog, and outside custom mode the rule index is an index of the
\* category's rules, so currentConversionSet is never undefined
C15_SelectionResolves ==
    /\ activeCategoryId \in CategoryIds
    /\ ActiveCategory(Cur) # {}
    /\ ~IsCustom(Cur) => activeConversionIndex + 1 \in 1..Len(Conversions(Cur))
    /\ "undefined" \notin CurrentConversionSet(Cur).keys

\* area, with six rules, was selected while the eighth rule of length was active
C15_Witness ==
    /\ last.event = "handleCategoryChange"
    /\ activeCategoryId = "area"
    /\ activeConversionIndex = 0
    /\ \E i \in 1..Len(history) :
          history[i].inputUnit = "Meters" /\ history[i].outputUnit = "Yards"

\* C16: the ids of the history's entries are pairwise distinct and in order
\* of creation: an entry has a later id than every entry behind it
C16_UniqueOrderedIds ==
    \A i, j \in 1..Len(history) : i < j => history[i].id > history[j].id

\* the step has put one entry, made from the input and the result it leaves,
\* in front of the history and cut the list to its limit
Prepended ==
    /\ history' # << >>
    /\ history' = Take(<<history'[1]>> \o history, HistoryLimit)
    /\ history'[1].inputValue = Trim(inputValue')
    /\ history'[1].resultValue = resultValue'
    /\ FiniteInput(inputValue')

\* the step is the press of Clear History: the list is empty, the panel hidden
Cleared == last'.event = "clearHistory" /\ history' = << >> /\ ~showHistory'

RulesOf(c) == COMPLEX_CONVERSION_DATA[c].conversions

\* f * g = 1 within 1e-6, for finite factors f and g
Reciprocal(f, g) ==
    CloseMagnitudes(BigMulSmall(IntToBig(f.num), g.num),
                    BigMulSmall(IntToBig(f.den), g.den))

\* rule r of a category has a counterpart there: the units exchanged, and for
\* a linear rule the factor the reciprocal
HasCounterpart(c, r) ==
    \E j \in 1..Len(RulesOf(c)) :
        /\ RulesOf(c)[j].from = r.to
        /\ RulesOf(c)[j].to = r.from
        /\ RulesOf(c)[j].keys = r.keys
        /\ "factor" \in r.keys => Reciprocal(r.factor, RulesOf(c)[j].factor)

\* C18: every linear rule A to B of the catalog, factor f, has in its category
\* a rule B to A with a factor g, f * g = 1 within 1e-6, and every temperature
\* rule A to B has a rule B to A in the temperature category (stated of the
\* active category, which is each category of the catalog in turn)
C18_CatalogPairs ==
    \A c \in ActiveCategory(Cur) :
        \A i \in 1..Len(RulesOf(c)) : HasCounterpart(c, RulesOf(c)[i])

\* the active rule is Liters to Cubic Meters, factor 0.001, whose counterpart's
\* factor is written 1000, and a value was converted by it
C18_Witness ==
    /\ activeCategoryId = "volume" /\ activeConversionIndex = 4
    /\ CurrentConversionSet(Cur).factor = Factor(FALSE, 1, 1000)
    /\ \E c \in ActiveCategory(Cur) : HasCounterpart(c, CurrentConversionSet(Cur))
    /\ last.branch = "stored"

\* a natural number as a number of the model
Whole(c) == Num(FALSE, IntToBig(c), 0, 1)

\* the active rule is the temperature rule from one unit to the other
ActiveFormula(s, from, to) ==
    /\ IsTemperature(s)
    /\ "formula" \in CurrentConversionSet(s).keys
    /\ CurrentConversionSet(s).from = from
    /\ CurrentConversionSet(s).to = to

\* with that rule active and x typed, the formula's value is y and the
\* result shown is text
Maps(s, from, to, x, y, text) ==
    ActiveFormula(s, from, to) /\ NumEq(ParseFloat(Trim(s.inputValue)), x)
        => /\ NumEq(ApplyFormula(CurrentConversionSet(s).formula, x), y)
           /\ s.resultValue = text

\* C19: Celsius to Fahrenheit takes 0 to 32 and 100 to 212, Fahrenheit to
\* Celsius takes 32 to 0, Celsius to Kelvin takes 0 to 273.15
C19_TemperatureValues ==
    /\ Maps(Cur, "Celsius", "Fahrenheit", Whole(0), Whole(32), <<"3", "2">>)
    /\ Maps(Cur, "Celsius", "Fahrenheit", Whole(100), Whole(212), <<"2", "1", "2">>)
    /\ Maps(Cur, "Fahrenheit", "Celsius", Whole(32), Whole(0), <<"0">>)
    /\ Maps(Cur, "Celsius", "Kelvin", Whole(0), Num(FALSE, IntToBig(27315), 2, 1),
            <<"2", "7", "3", ".", "1", "5">>)

\* 0 was typed with Celsius to Kelvin active, and 273.15 is shown
C19_Witness ==
    /\ ActiveFormula(Cur, "Celsius", "Kelvin")
    /\ inputValue = <<"0">>
    /\ last.event = "inputText" /\ last.ran
    /\ resultValue = <<"2", "7", "3", ".", "1", "5">>

\* the text before the first "." and the text after it
IntegerPortion(text) == Take(text, DotIndex(text) - 1)

FractionPortion(text) == Drop(text, DotIndex(text))

\* the text without a leading "-"
Unsigned(text) == IF text # << >> /\ Head(text) = "-" THEN Tail(text) ELSE text

\* digits with a "," before every group of three counted from the end
CommaGrouped(p) ==
    /\ p # << >>
    /\ \A i \in 1..Len(p) :
          IF (Len(p) - i + 1) % 4 = 0 THEN p[i] = "," ELSE IsDigit(p[i])
    /\ IsDigit(p[1])

NoComma(text) == \A i \in 1..Len(text) : text[i] # ","

\* |t - v| <= 0.5 * 10^-8, for a parsed text t (t.q = 1) and a finite v
WithinHalfUnit(t, v) ==
    /\ t.kind = "num"
    /\ t.n = << >> \/ t.neg = v.neg
    /\ BigCmp(BigMulSmall(BigShift(
                 AbsDiff(BigMulSmall(BigShift(t.n, Max(t.e, v.e) - t.e), v.q),
                         BigShift(v.n, Max(t.e, v.e) - v.e)), 8), 2),
              BigShift(IntToBig(v.q), Max(t.e, v.e))) <= 0

\* text is the rendering of the finite value v
Rendered(v, text) ==
    /\ IF IsInteger(v)
       THEN /\ DotIndex(text) = Len(text) + 1
            /\ NumEq(ParseFloat(RemoveCommas(text)), v)
       ELSE /\ Len(FractionPortion(text)) <= 8
            /\ text[Len(text)] # "."
            /\ DotIndex(text) <= Len(text) => text[Len(text)] # "0"
            /\ WithinHalfUnit(ParseFloat(RemoveCommas(text)), v)
    /\ IF AbsAtLeast1000(v)
       THEN /\ CommaGrouped(Unsigned(IntegerPortion(text)))
            /\ NoComma(FractionPortion(text))
       ELSE NoComma(text)

\* C20: a computed value v is rendered without a decimal point when it is an
\* integer, else with 8 fractional digits at most, the trailing zeros and a
\* decimal point left last stripped; from |v| = 1000 on the integer portion is
\* grouped by commas and the fractional portion is as it was: 3280.84 gives
\* "3,280.84", 16.4042 gives "16.4042", 10.0 gives "10"
C20_Formatting ==
    /\ last.ran /\ last.branch \in {"stored", "shown"} /\ IsFinite(last.converted)
          => /\ resultValue = Format(last.converted)
             /\ Rendered(last.converted, resultValue)
    /\ Format(Num(FALSE, IntToBig(328084), 2, 1))
          = <<"3", ",", "2", "8", "0", ".", "8", "4">>
    /\ Format(Num(FALSE, IntToBig(164042), 4, 1)) = <<"1", "6", ".", "4", "0", "4", "2">>
    /\ Format(Num(FALSE, IntToBig(100), 1, 1)) = <<"1", "0">>

\* a value of 1000 or more with a fraction was computed and is shown grouped
C20_Witness ==
    /\ last.ran /\ last.branch = "stored"
    /\ AbsAtLeast1000(last.converted) /\ ~IsInteger(last.converted)
    /\ resultValue = <<"3", ",", "2", "8", "0", ".", "8", "4">>

\* the rule of the catalog the selection points at, read from the catalog itself
CatalogRule ==
    COMPLEX_CONVERSION_DATA[CHOOSE c \in 1..Len(COMPLEX_CONVERSION_DATA) :
        COMPLEX_CONVERSION_DATA[c].id = activeCategoryId]
            .conversions[activeConversionIndex + 1]

\* the custom names as displayed: "Unit A" and "Unit B" for the empty ones
CustomPair ==
    <<IF customFromUnit = "" THEN "Unit A" ELSE customFromUnit,
      IF customToUnit = "" THEN "Unit B" ELSE customToUnit>>

Reversed(pair) == <<pair[2], pair[1]>>

\* C21: the displayed pair (inputUnit, outputUnit) is (rule.from, rule.to) for
\* a rule with a formula whatever the swapped flag; for a linear rule of the
\* catalog (rule.from, rule.to), reversed when swapped; in custom mode
\* (customFrom, customTo) with "Unit A" and "Unit B" for empty names, reversed
\* when swapped; and neither displayed unit is the empty string
C21_DisplayedUnits ==
    /\ IsCustom(Cur) =>
          Units(Cur) = IF isSwapped THEN Reversed(CustomPair) ELSE CustomPair
    /\ ~IsCustom(Cur) /\ "formula" \in CatalogRule.keys =>
          Units(Cur) = <<CatalogRule.from, CatalogRule.to>>
    /\ ~IsCustom(Cur) /\ "factor" \in CatalogRule.keys =>
          Units(Cur) = IF isSwapped THEN <<CatalogRule.to, CatalogRule.from>>
                       ELSE <<CatalogRule.from, CatalogRule.to>>
    /\ InputUnit(Cur) # "" /\ OutputUnit(Cur) # ""

\* custom mode, swapped, with one name typed and the other left empty
C21_Witness ==
    /\ IsCustom(Cur) /\ isSwapped
    /\ customFromUnit = "" /\ customToUnit = "USD"
    /\ InputUnit(Cur) = "USD" /\ OutputUnit(Cur) = "Unit A"

\* the rule has a factor or a formula, and not both
FactorXorFormula(rule) == rule.keys \in {{"factor"}, {"formula"}}

\* C22: the active rule, of the catalog or built in custom mode, has exactly
\* one of a factor and a formula; so has every rule of the active category,
\* and each of its linear rules has a factor other than zero (the catalog
\* itself is a constant of the program, which no handler writes)
C22_RuleShape ==
    /\ FactorXorFormula(CurrentConversionSet(Cur))
    /\ \A c \in ActiveCategory(Cur) : \A i \in 1..Len(RulesOf(c)) :
          /\ FactorXorFormula(RulesOf(c)[i])
          /\ "factor" \in RulesOf(c)[i].keys =>
                /\ RulesOf(c)[i].factor.kind = "num"
                /\ RulesOf(c)[i].factor.num # 0
                /\ RulesOf(c)[i].factor.den # 0

\* a value was converted by the last temperature rule after one was converted
\* by a linear rule
C22_Witness ==
    /\ IsTemperature(Cur) /\ activeConversionIndex = 5
    /\ CurrentConversionSet(Cur).keys = {"formula"}
    /\ last.branch = "stored"
    /\ Len(history) = 2 /\ history[2].category = "Length"

\* C23: the result never shows "Error: No formula/factor", and convert never
\* takes the branch that sets it
C23_NoMalformedRule ==
    /\ resultValue # NoFormulaText
    /\ last.branch # "malformed"
    /\ convert(Cur, now).branch # "malformed"

\* convert went through the try block for a formula rule and showed a value
C23_Witness ==
    /\ IsTemperature(Cur) /\ activeConversionIndex = 2
    /\ last.ran /\ last.branch = "stored"
    /\ IsNumberText(resultValue)

\* swapConversion called in state s raises an alert and returns
Rejects(s) == swapConversion(s).alert # ""

\* C24: the swap control is disabled exactly in the states where swapConversion
\* would reject (temperature, or custom mode with a factor text that parses to
\* 0), so a swap made while the control is enabled is accepted: the flag flips
\* and no alert is raised; one made while it is disabled changes nothing
C24_DisabledIffRejected ==
    [][/\ IsSwapDisabled(Cur) = Rejects(Cur)
       /\ Rejects(Cur) = (IsTemperature(Cur)
                            \/ (IsCustom(Cur) /\ IsZero(ParseFloat(customFactor))))
       /\ SwapAttempt /\ ~IsSwapDisabled(Cur)
             => last'.alert = "" /\ isSwapped' = ~isSwapped
       /\ SwapAttempt /\ IsSwapDisabled(Cur)
             => last'.alert # "" /\ CurNext = Cur]_vars

\* the control was enabled in custom mode with a factor of 2.5 and the swap
\* made there was accepted
C24_Witness ==
    /\ last.event = "swapConversion" /\ last.alert = ""
    /\ IsCustom(Cur) /\ isSwapped
    /\ customFactor = <<"2", ".", "5">>
    /\ ~IsSwapDisabled(Cur)

\* the label of the active category, read from the catalog itself
CatalogLabel ==
    COMPLEX_CONVERSION_DATA[CHOOSE c \in 1..Len(COMPLEX_CONVERSION_DATA) :
        COMPLEX_CONVERSION_DATA[c].id = activeCategoryId].label

\* C25: right after a successful conversion the first entry of the history
\* holds the trimmed input, the displayed input and output units (in the
\* direction of the swapped flag), the displayed result, and the label of the
\* active category, in custom mode "Custom: <from> <-> <to>"
C25_FrontEntryRecordsConversion ==
    last.ran /\ last.branch = "stored" =>
        /\ history # << >>
        /\ history[1].inputValue = Trim(inputValue)
        /\ history[1].inputUnit = InputUnit(Cur)
        /\ history[1].outputUnit = OutputUnit(Cur)
        /\ history[1].resultValue = resultValue
        /\ history[1].category =
              IF IsCustom(Cur)
              THEN "Custom: " \o CustomPair[1] \o " <-> " \o CustomPair[2]
              ELSE CatalogLabel
        /\ history[1].category # ""

\* a conversion in swapped custom mode, from an input typed with spaces
C25_Witness ==
    /\ last.ran /\ last.branch = "stored"
    /\ IsCustom(Cur) /\ isSwapped
    /\ inputValue = <<" ", "5", " ">>
    /\ history[1].inputValue = <<"5">>
    /\ history[1].inputUnit = "Unit B" /\ history[1].outputUnit = "Unit A"
    /\ history[1].category = "Custom: Unit A <-> Unit B"

\* the result as a function of the raw input and the selection alone: convert
\* called on them with nothing else of the state
ComputeView(input, selection) ==
    convert([inputValue |-> input, resultValue |-> << >>,
             activeCategoryId |-> selection[1],
             activeConversionIndex |-> selection[2],
             isSwapped |-> selection[3], history |-> << >>, showHistory |-> FALSE,
             customFromUnit |-> selection[4], customToUnit |-> selection[5],
             customFactor |-> selection[6]], 0).resultValue

\* C26: after every event the displayed result is the function of the current
\* raw input and selection (category, rule index, swapped flag, custom names
\* and factor) that convert computes: it is never stale
C26_ResultIsFunctionOfState ==
    resultValue = ComputeView(inputValue, Selection(Cur))

\* the custom factor was edited under a typed input, and the result followed
C26_Witness ==
    /\ last.event = "customFactor" /\ last.ran
    /\ inputValue = <<" ", "5", " ">>
    /\ customFactor = <<"2", ".", "5">>
    /\ resultValue = <<"1", "2", ".", "5">>

\* C27: a category tap sets the rule index to 0; a category tap and a unit
\* tap both set the swapped flag to false and leave the input and the result
\* empty; neither changes the history, and a unit tap keeps the category
C27_SelectionChangeResets ==
    [][/\ last'.event = "handleCategoryChange" => activeConversionIndex' = 0
       /\ last'.event \in {"handleCategoryChange", "handleUnitChange"}
             => /\ ~isSwapped'
                /\ inputValue' = << >>
                /\ resultValue' = << >>
                /\ history' = history
       /\ last'.event = "handleUnitChange"
             => activeCategoryId' = activeCategoryId]_vars

\* a unit was tapped in the swapped state an accepted swap had left, with an
\* input and a result on the screen
C27_Witness ==
    /\ last.event = "handleUnitChange"
    /\ activeConversionIndex = 2 /\ activeCategoryId = "length"
    /\ ~isSwapped /\ inputValue = << >> /\ resultValue = << >>
    /\ Len(history) = 2
    /\ history[1].inputUnit = "Feet" /\ history[1].outputUnit = "Meters"
    /\ history[1].inputValue = history[2].resultValue

\* C28: the tap on a history entry makes that entry's inputValue the raw
\* input and hides the panel; category, rule index, swapped flag and custom
\* fields stay, so the result that follows is the conversion of the recalled
\* input under the current selection, not the one the entry was made under
C28_HistoryTapRecallsInputOnly ==
    [][last'.event = "historyItemPress"
          => /\ \E i \in 1..Len(history) : inputValue' = history[i].inputValue
             /\ ~showHistory'
             /\ Selection(CurNext) = Selection(Cur)
             /\ resultValue' = ComputeView(inputValue', Selection(Cur))
             /\ history' = history \/ Prepended]_vars

\* an entry made from meters to feet was tapped with kilometers to miles
\* selected, and its input was converted to miles
C28_Witness ==
    /\ last.event = "historyItemPress" /\ last.ran
    /\ ~showHistory
    /\ Len(history) = 2
    /\ history[2].inputUnit = "Meters" /\ history[2].outputUnit = "Feet"
    /\ history[1].inputUnit = "Kilometers" /\ history[1].outputUnit = "Miles"
    /\ inputValue = history[2].inputValue
    /\ resultValue = history[1].resultValue
    /\ resultValue # history[2].resultValue

\* C29: in custom mode, whenever the swapped flag is set the factor the rule
\* resolves to is not zero, also after the factor text was edited with the
\* flag set
C29_SwappedCustomFactorNonZero ==
    IsCustom(Cur) /\ isSwapped => NonZeroFactor(CurrentConversionSet(Cur).factor)

\* the number a result text displays: its digits read without the separators
Displayed(text) == ParseFloat(RemoveCommas(text))

\* C30: when an accepted swap feeds the displayed result of a number back as
\* the raw input, convert parses from it the number the text displays, with or
\* without thousands separators in it
C30_ResultParsesBack ==
    [][SwapAttempt /\ last'.alert = "" /\ IsNumberText(resultValue)
          => /\ last'.ran
             /\ inputValue' = resultValue
             /\ NumEq(last'.num, Displayed(resultValue))]_vars

=============================================================================
